---- MODULE Spec2Model ----
(***************************************************************************)
(* PRDeploymentImpact (src/pr_agent/tools/pr_deployment_impact.py): the    *)
(* run() pipeline, one action per step of the coroutine, driven through    *)
(* the fallback controller retry_with_fallback_models.  Calls on the PR    *)
(* provider (publish_comment, publish_persistent_comment,                  *)
(* remove_initial_comment, get_files) are I/O and may raise; every such    *)
(* call is recorded in `log` together with whether it succeeded.           *)
(***************************************************************************)
EXTENDS Integers, Sequences, FiniteSets, TLC

\* number of model identifiers in the fallback chain (ModelCandidate list)
NModels == 2
\* attempt ceiling of the fallback controller, per model
RetryCeiling == 2

Models == 1..NModels

\* what one chat_completion call can produce: a text, an empty text, a
\* truthy value that is not a string, or one of the two failure kinds
CompletionResults == {"ok", "empty", "nonstr", "transient", "permanent"}

\* the texts a model answers with
Texts == {"Risk: Low", "Risk: High"}

VARIABLES
    files,              \* get_files(): "empty", "nonempty" or "raises"
    publish_output,     \* get_settings().config.publish_output
    persistent_comment, \* get_settings().pr_deployment_impact.persistent_comment
    cli_mode,           \* self.cli_mode
    templates,          \* "override_ok", "override_missing_var", "no_override"
    pc,                 \* position of run()
    ctrl,               \* state of the fallback controller
    fpc,                \* position inside _prepare_prediction/_get_prediction
    attempts,           \* chat_completion calls so far: <<model, result>>
    patches_diff,       \* self.patches_diff: "None", "" or "diff"
    vars_diff,          \* self.vars["diff"]
    prediction,         \* self.prediction: "None", "", a text or "nonstr"
    analysis,           \* deployment_impact_analysis: "unset" or the report
    log,                \* provider calls so far: [op, ok]
    data,               \* get_settings().data: "none" or the artifact
    stdout,             \* what run() printed: "none" or the report
    err,                \* step whose exception run()'s handler caught
    raised,             \* exception that left run(): "none", "CancelledError"
    diff_writes,        \* assignments to self.vars["diff"] so far
    rpc,                \* position of api_analyze; "none": run() called directly
    response,           \* what api_analyze returned: [status, kind, body]
    nreq,               \* requests api_analyze has received
    own_start,          \* get_settings().data when the request came in
    opc,                \* position of a second, concurrent request
    other_result,       \* what run_analysis returned to the second request
    pr_url              \* whether the request in hand carries a pr_url

vars == <<files, publish_output, persistent_comment, cli_mode, templates, pc,
          ctrl, fpc, attempts, patches_diff, vars_diff, prediction, analysis,
          log, data, stdout, err, raised, diff_writes, rpc, response, nreq,
          own_start, opc, other_result, pr_url>>

\* the state of the web application around the pipeline
web == <<rpc, response, nreq, own_start, opc, other_result, pr_url>>

NoResponse == [status |-> 0, kind |-> "none", body |-> ""]

config == <<files, publish_output, persistent_comment, cli_mode, templates>>

----------------------------------------------------------------------------
\* helpers over the provider-call log

Call(op, ok) == [op |-> op, ok |-> ok]

CallsOf(op) == {k \in 1..Len(log) : log[k].op = op}

Done(op) == {k \in 1..Len(log) : log[k].op = op /\ log[k].ok}

ReportOps == {"report_comment", "report_persistent"}

ReportCalls == {k \in 1..Len(log) : log[k].op \in ReportOps}

\* python truthiness of self.prediction
Truthy(p) == p \notin {"None", ""}

AttemptsOn(m) == {k \in 1..Len(attempts) : attempts[k][1] = m}

IsFailure(r) == r \in {"transient", "permanent"}

----------------------------------------------------------------------------
\* retry_with_fallback_models: the controller's transitions

CtrlStart == [state |-> "TryModel", i |-> 1, attempt |-> 1]

NextModel(c) ==
    IF c.i + 1 > NModels
    THEN [state |-> "Exhausted", i |-> c.i, attempt |-> c.attempt]
    ELSE [state |-> "TryModel", i |-> c.i + 1, attempt |-> 1]

OnFailure(c, kind) ==
    IF kind = "transient" /\ c.attempt < RetryCeiling
    THEN [state |-> "RetryModel", i |-> c.i, attempt |-> c.attempt + 1]
    ELSE NextModel(c)

OnReturn(c) == [c EXCEPT !.state = "Succeeded"]

OnOtherException(c) == [c EXCEPT !.state = "Propagated"]

CtrlActive == ctrl.state \in {"TryModel", "RetryModel"}

----------------------------------------------------------------------------
Init ==
    /\ files \in {"empty", "nonempty", "raises"}
    /\ publish_output \in BOOLEAN
    /\ persistent_comment \in BOOLEAN
    /\ cli_mode \in BOOLEAN
    /\ templates \in {"override_ok", "override_missing_var", "no_override"}
    /\ pc = "start"
    /\ ctrl = [state |-> "NotStarted", i |-> 1, attempt |-> 1]
    /\ fpc = "idle"
    /\ attempts = <<>>
    /\ patches_diff = "None"
    /\ vars_diff = ""
    /\ prediction = "None"
    /\ analysis = "unset"
    /\ log = <<>>
    /\ data = "none"
    /\ stdout = "none"
    /\ err = "none"
    /\ raised = "none"
    /\ diff_writes = 0
    /\ rpc = "none"
    /\ response = NoResponse
    /\ nreq = 0
    /\ own_start = "none"
    /\ opc = "idle"
    /\ other_result = "none"
    /\ pr_url = TRUE

\* CheckFiles without the early return of line 153
CheckFiles_NoEarlyReturn ==
    /\ pc = "start"
    /\ \/ /\ files \in {"empty", "nonempty"}
          /\ pc' = "post_marker"
          /\ err' = err
       \/ /\ files = "raises"
          /\ pc' = "except"
          /\ err' = "get_files"
    /\ UNCHANGED <<config, ctrl, fpc, attempts, patches_diff, vars_diff,
                   prediction, analysis, log, data, stdout, raised,
                   diff_writes, web>>

\* run(), lines 150-155: the changed-file check
CheckFiles ==
    /\ pc = "start"
    /\ \/ /\ files = "empty"
          /\ pc' = "returned"
          /\ err' = err
       \/ /\ files = "nonempty"
          /\ pc' = "post_marker"
          /\ err' = err
       \/ /\ files = "raises"
          /\ pc' = "except"
          /\ err' = "get_files"
    /\ UNCHANGED <<config, ctrl, fpc, attempts, patches_diff, vars_diff,
                   prediction, analysis, log, data, stdout, raised,
                   diff_writes, web>>

\* run(), lines 157-159: the provisional "in progress" comment
PostMarker ==
    /\ pc = "post_marker"
    /\ IF publish_output
       THEN \E ok \in BOOLEAN :
               /\ log' = Append(log, Call("marker", ok))
               /\ IF ok
                  THEN /\ pc' = "await_ctrl"
                       /\ ctrl' = CtrlStart
                       /\ err' = err
                  ELSE /\ pc' = "except"
                       /\ ctrl' = ctrl
                       /\ err' = "marker"
       ELSE /\ log' = log
            /\ pc' = "await_ctrl"
            /\ ctrl' = CtrlStart
            /\ err' = err
    /\ UNCHANGED <<config, fpc, attempts, patches_diff, vars_diff,
                   prediction, analysis, data, stdout, raised,
                   diff_writes, web>>

\* PreparePrediction without the empty-diff branch of lines 220-225: the
\* model is asked whatever the diff is
PreparePrediction_IgnoresEmptyDiff ==
    /\ pc = "await_ctrl"
    /\ CtrlActive
    /\ fpc = "idle"
    /\ \E d \in {"", "diff"} :
          /\ ctrl.state = "RetryModel" => d = patches_diff
          /\ patches_diff' = d
          /\ prediction' = prediction
          /\ vars_diff' = d
          /\ diff_writes' = diff_writes + 1
          /\ IF templates = "override_ok"
             THEN /\ fpc' = "awaiting_completion"
                  /\ ctrl' = ctrl
                  /\ pc' = pc
                  /\ err' = err
             ELSE /\ fpc' = fpc
                  /\ ctrl' = OnOtherException(ctrl)
                  /\ pc' = "except"
                  /\ err' = IF templates = "no_override"
                            THEN "resolve_templates"
                            ELSE "render"
    /\ UNCHANGED <<config, attempts, analysis, log, data, stdout, raised,
                   web>>

\* PreparePrediction that fills the diff slot of the context only while it
\* is still empty
PreparePrediction_WritesDiffOnce ==
    /\ pc = "await_ctrl"
    /\ CtrlActive
    /\ fpc = "idle"
    /\ \E d \in {"", "diff"} :
          /\ ctrl.state = "RetryModel" => d = patches_diff
          /\ patches_diff' = d
          /\ IF d = ""
             THEN /\ prediction' = "None"
                  /\ vars_diff' = vars_diff
                  /\ diff_writes' = diff_writes
                  /\ ctrl' = OnReturn(ctrl)
                  /\ fpc' = fpc
                  /\ pc' = "check_prediction"
                  /\ err' = err
             ELSE /\ prediction' = prediction
                  /\ vars_diff' = IF vars_diff = "" THEN d ELSE vars_diff
                  /\ diff_writes' = IF vars_diff = "" THEN diff_writes + 1
                                    ELSE diff_writes
                  /\ IF templates = "override_ok"
                     THEN /\ fpc' = "awaiting_completion"
                          /\ ctrl' = ctrl
                          /\ pc' = pc
                          /\ err' = err
                     ELSE /\ fpc' = fpc
                          /\ ctrl' = OnOtherException(ctrl)
                          /\ pc' = "except"
                          /\ err' = IF templates = "no_override"
                                    THEN "resolve_templates"
                                    ELSE "render"
    /\ UNCHANGED <<config, attempts, analysis, log, data, stdout, raised,
                   web>>

\* _prepare_prediction, lines 212-225, with _get_prediction up to the model
\* call, lines 237-256: one attempt of the controller on model ctrl.i.  A
\* retry of the same model sees the same inputs, so the same diff.
PreparePrediction ==
    /\ pc = "await_ctrl"
    /\ CtrlActive
    /\ fpc = "idle"
    /\ \E d \in {"", "diff"} :
          /\ ctrl.state = "RetryModel" => d = patches_diff
          /\ patches_diff' = d
          /\ IF d = ""
             THEN /\ prediction' = "None"
                  /\ vars_diff' = vars_diff
                  /\ diff_writes' = diff_writes
                  /\ ctrl' = OnReturn(ctrl)
                  /\ fpc' = fpc
                  /\ pc' = "check_prediction"
                  /\ err' = err
             ELSE /\ prediction' = prediction
                  /\ vars_diff' = d
                  /\ diff_writes' = diff_writes + 1
                  /\ IF templates = "override_ok"
                     THEN /\ fpc' = "awaiting_completion"
                          /\ ctrl' = ctrl
                          /\ pc' = pc
                          /\ err' = err
                     ELSE /\ fpc' = fpc
                          /\ ctrl' = OnOtherException(ctrl)
                          /\ pc' = "except"
                          /\ err' = IF templates = "no_override"
                                    THEN "resolve_templates"
                                    ELSE "render"
    /\ UNCHANGED <<config, attempts, analysis, log, data, stdout, raised,
                   web>>

\* what self.prediction becomes when chat_completion returns r, t being
\* the text of an answer
PredictionOf(r, t) ==
    CASE r = "ok" -> t
      [] r = "empty" -> ""
      [] r = "nonstr" -> "nonstr"

\* ChatCompletion that loses the response: line 222 does not assign
ChatCompletion_DropsResponse ==
    /\ pc = "await_ctrl"
    /\ fpc = "awaiting_completion"
    /\ \E r \in CompletionResults, t \in Texts :
          /\ r # "ok" => t = "Risk: Low"
          /\ attempts' = Append(attempts, <<ctrl.i, r>>)
          /\ fpc' = "idle"
          /\ prediction' = prediction
          /\ IF IsFailure(r)
             THEN /\ ctrl' = OnFailure(ctrl, r)
                  /\ pc' = IF ctrl'.state = "Exhausted"
                           THEN "check_prediction"
                           ELSE "await_ctrl"
             ELSE /\ ctrl' = OnReturn(ctrl)
                  /\ pc' = "check_prediction"
    /\ UNCHANGED <<config, patches_diff, vars_diff, analysis, log, data,
                   stdout, err, raised,
                   diff_writes, web>>

\* ChatCompletion that repeats a failed call once itself before it reports
\* the failure to its caller
ChatCompletion_RetriesInside ==
    /\ pc = "await_ctrl"
    /\ fpc = "awaiting_completion"
    /\ \E r \in CompletionResults, t \in Texts :
          /\ r # "ok" => t = "Risk: Low"
          /\ fpc' = "idle"
          /\ IF IsFailure(r)
             THEN /\ attempts' = Append(Append(attempts, <<ctrl.i, r>>),
                                        <<ctrl.i, r>>)
                  /\ prediction' = prediction
                  /\ ctrl' = OnFailure(ctrl, r)
                  /\ pc' = IF ctrl'.state = "Exhausted"
                           THEN "check_prediction"
                           ELSE "await_ctrl"
             ELSE /\ attempts' = Append(attempts, <<ctrl.i, r>>)
                  /\ prediction' = PredictionOf(r, t)
                  /\ ctrl' = OnReturn(ctrl)
                  /\ pc' = "check_prediction"
    /\ UNCHANGED <<config, patches_diff, vars_diff, analysis, log, data,
                   stdout, err, raised,
                   diff_writes, web>>

\* _get_prediction, lines 259-266, and the assignment of line 222: the
\* awaited chat_completion call completes, with a result or a failure
ChatCompletion ==
    /\ pc = "await_ctrl"
    /\ fpc = "awaiting_completion"
    /\ \E r \in CompletionResults, t \in Texts :
          /\ r # "ok" => t = "Risk: Low"
          /\ attempts' = Append(attempts, <<ctrl.i, r>>)
          /\ fpc' = "idle"
          /\ IF IsFailure(r)
             THEN /\ prediction' = prediction
                  /\ ctrl' = OnFailure(ctrl, r)
                  /\ pc' = IF ctrl'.state = "Exhausted"
                           THEN "check_prediction"
                           ELSE "await_ctrl"
             ELSE /\ prediction' = PredictionOf(r, t)
                  /\ ctrl' = OnReturn(ctrl)
                  /\ pc' = "check_prediction"
    /\ UNCHANGED <<config, patches_diff, vars_diff, analysis, log, data,
                   stdout, err, raised,
                   diff_writes, web>>

\* the caller cancels the task while run() is suspended in the model call:
\* asyncio raises CancelledError at the await.  CancelledError derives from
\* BaseException, so the handler of line 193 (except Exception) is skipped
\* and the exception leaves run().
Cancel ==
    /\ pc = "await_ctrl"
    /\ fpc = "awaiting_completion"
    /\ fpc' = "idle"
    /\ ctrl' = OnOtherException(ctrl)
    /\ raised' = "CancelledError"
    /\ pc' = "raised"
    /\ UNCHANGED <<config, attempts, patches_diff, vars_diff, prediction,
                   analysis, log, data, stdout, err,
                   diff_writes, web>>

\* CheckPrediction that reports a missing prediction as a failure
CheckPrediction_Notifies ==
    /\ pc = "check_prediction"
    /\ IF ~Truthy(prediction)
       THEN /\ log' = log
            /\ pc' = "except"
            /\ err' = "no_prediction"
       ELSE /\ log' = log
            /\ pc' = "format"
            /\ err' = err
    /\ UNCHANGED <<config, ctrl, fpc, attempts, patches_diff, vars_diff,
                   prediction, analysis, data, stdout, raised,
                   diff_writes, web>>

\* run(), lines 163-165: no prediction, remove the marker and return
CheckPrediction ==
    /\ pc = "check_prediction"
    /\ IF ~Truthy(prediction)
       THEN \E ok \in BOOLEAN :
               /\ log' = Append(log, Call("remove", ok))
               /\ pc' = IF ok THEN "returned" ELSE "except"
               /\ err' = IF ok THEN err ELSE "remove_no_prediction"
       ELSE /\ log' = log
            /\ pc' = "format"
            /\ err' = err
    /\ UNCHANGED <<config, ctrl, fpc, attempts, patches_diff, vars_diff,
                   prediction, analysis, data, stdout, raised,
                   diff_writes, web>>

\* the emoji that ends the header of line 275, as the bytes of the source
\* file decode (UTF-8): U+00F0 U+0178 U+0161 U+20AC
HeaderEmoji == "<U+00F0><U+0178><U+0161><U+20AC>"

\* the report with the header and the text separated by one newline only
PrepareDeploymentImpactAnalysis_OneNewline(p) ==
    "# Deployment Impact Analysis " \o HeaderEmoji \o "\n" \o p

\* _prepare_deployment_impact_analysis, lines 275-278
PrepareDeploymentImpactAnalysis(p) ==
    "# Deployment Impact Analysis " \o HeaderEmoji \o "\n\n" \o p

\* run(), lines 168-169, _prepare_deployment_impact_analysis, lines 275-278:
\* header + prediction; the concatenation raises TypeError unless the
\* prediction is a string
Format ==
    /\ pc = "format"
    /\ IF prediction \in Texts
       THEN /\ analysis' = PrepareDeploymentImpactAnalysis(prediction)
            /\ pc' = "publish"
            /\ err' = err
       ELSE /\ analysis' = analysis
            /\ pc' = "except"
            /\ err' = "format"
    /\ UNCHANGED <<config, ctrl, fpc, attempts, patches_diff, vars_diff,
                   prediction, log, data, stdout, raised,
                   diff_writes, web>>

\* Publish that removes the marker first and publishes the report after
Publish_RemovesFirst ==
    /\ pc = "publish"
    /\ IF publish_output
       THEN /\ \E ok \in BOOLEAN :
                  /\ log' = Append(Append(log, Call("remove", TRUE)),
                               Call(IF persistent_comment
                                    THEN "report_persistent"
                                    ELSE "report_comment", ok))
                  /\ pc' = IF ok THEN "returned" ELSE "except"
                  /\ err' = IF ok THEN err ELSE "publish"
            /\ UNCHANGED <<data, stdout>>
       ELSE /\ data' = analysis
            /\ stdout' = IF cli_mode THEN analysis ELSE stdout
            /\ pc' = "returned"
            /\ UNCHANGED <<log, err>>
    /\ UNCHANGED <<config, ctrl, fpc, attempts, patches_diff, vars_diff,
                   prediction, analysis, raised,
                   diff_writes, web>>

\* run(), lines 171-182 and 185-191: the one publish action, or the artifact
Publish ==
    /\ pc = "publish"
    /\ IF publish_output
       THEN /\ \E ok \in BOOLEAN :
                  /\ log' = Append(log,
                               Call(IF persistent_comment
                                    THEN "report_persistent"
                                    ELSE "report_comment", ok))
                  /\ pc' = IF ok THEN "remove_final" ELSE "except"
                  /\ err' = IF ok THEN err ELSE "publish"
            /\ UNCHANGED <<data, stdout>>
       ELSE /\ data' = analysis
            /\ stdout' = IF cli_mode THEN analysis ELSE stdout
            /\ pc' = "returned"
            /\ UNCHANGED <<log, err>>
    /\ UNCHANGED <<config, ctrl, fpc, attempts, patches_diff, vars_diff,
                   prediction, analysis, raised,
                   diff_writes, web>>

\* run(), line 184: remove the marker after the report went out
RemoveFinal ==
    /\ pc = "remove_final"
    /\ \E ok \in BOOLEAN :
          /\ log' = Append(log, Call("remove", ok))
          /\ pc' = IF ok THEN "returned" ELSE "except"
          /\ err' = IF ok THEN err ELSE "remove_final"
    /\ UNCHANGED <<config, ctrl, fpc, attempts, patches_diff, vars_diff,
                   prediction, analysis, data, stdout, raised,
                   diff_writes, web>>

\* Except without the inner try/except of lines 196-203: an exception of
\* the notice leaves run()
Except_Propagates ==
    /\ pc = "except"
    /\ IF publish_output
       THEN \E ok \in BOOLEAN :
               /\ log' = Append(log, Call("failed_notice", ok))
               /\ pc' = IF ok THEN "except_remove" ELSE "raised"
               /\ raised' = IF ok THEN raised ELSE "Exception"
       ELSE /\ log' = log
            /\ pc' = "returned"
            /\ raised' = raised
    /\ UNCHANGED <<config, ctrl, fpc, attempts, patches_diff, vars_diff,
                   prediction, analysis, data, stdout, err,
                   diff_writes, web>>

\* run(), lines 193-200 and 202-203: the handler's failure notice; an
\* exception of the notice is swallowed and ends run()
Except ==
    /\ pc = "except"
    /\ IF publish_output
       THEN \E ok \in BOOLEAN :
               /\ log' = Append(log, Call("failed_notice", ok))
               /\ pc' = IF ok THEN "except_remove" ELSE "returned"
       ELSE /\ log' = log
            /\ pc' = "returned"
    /\ UNCHANGED <<config, ctrl, fpc, attempts, patches_diff, vars_diff,
                   prediction, analysis, data, stdout, err, raised,
                   diff_writes, web>>

\* run(), lines 201-203: the handler's marker removal, exceptions swallowed
ExceptRemove ==
    /\ pc = "except_remove"
    /\ \E ok \in BOOLEAN :
          /\ log' = Append(log, Call("remove", ok))
          /\ pc' = "returned"
    /\ UNCHANGED <<config, ctrl, fpc, attempts, patches_diff, vars_diff,
                   prediction, analysis, data, stdout, err, raised,
                   diff_writes, web>>

Next ==
    \/ CheckFiles
    \/ PostMarker
    \/ PreparePrediction
    \/ ChatCompletion
    \/ Cancel
    \/ CheckPrediction
    \/ Format
    \/ Publish
    \/ RemoveFinal
    \/ Except
    \/ ExceptRemove

\* the steps of the program itself; Cancel is the caller's
Step ==
    \/ CheckFiles
    \/ PostMarker
    \/ PreparePrediction
    \/ ChatCompletion
    \/ CheckPrediction
    \/ Format
    \/ Publish
    \/ RemoveFinal
    \/ Except
    \/ ExceptRemove

Spec == Init /\ [][Next]_vars

\* the event loop runs a runnable coroutine, and an awaited call completes
FairSpec == Spec /\ WF_vars(Step)

Terminated == pc \in {"returned", "raised"}

TypeOK ==
    /\ pc \in {"no_instance", "start", "post_marker", "await_ctrl", "check_prediction",
               "format", "publish", "remove_final", "except",
               "except_remove", "returned", "raised"}
    /\ ctrl.state \in {"NotStarted", "TryModel", "RetryModel", "Succeeded",
                       "Exhausted", "Propagated"}
    /\ ctrl.i \in Models
    /\ ctrl.attempt \in 1..RetryCeiling
    /\ fpc \in {"idle", "awaiting_completion"}
    /\ prediction \in {"None", "", "nonstr"} \cup Texts
    /\ patches_diff \in {"None", "", "diff"}

----------------------------------------------------------------------------
\* src/web_app/app.py: /api/analyze.  get_settings() is one settings object
\* for the whole process: what api_analyze and run() store in it
\* (publish_output, data) stays there for every later and every concurrent
\* request.

\* requests the observed handler thread serves, one after the other
MaxRequests == 2

\* the settings entries that requests share
SharedSettings == <<publish_output, data>>

\* app.py line 69
NoResultText == "No analysis result available"

\* the report of the second request
OtherReport == PrepareDeploymentImpactAnalysis("Risk: Medium")

\* app.py lines 66-69: the artifact of the settings, or the fixed text
ArtifactOrDefault(d) == IF d # "none" THEN d ELSE NoResultText

\* the pipeline variables of a PRDeploymentImpact that __init__ has just
\* built (p = "start"), or of a request that has none (p = "no_instance")
Instance(p) ==
    /\ pc' = p
    /\ ctrl' = [state |-> "NotStarted", i |-> 1, attempt |-> 1]
    /\ fpc' = "idle"
    /\ attempts' = <<>>
    /\ patches_diff' = "None"
    /\ vars_diff' = ""
    /\ prediction' = "None"
    /\ analysis' = "unset"
    /\ log' = <<>>
    /\ stdout' = "none"
    /\ err' = "none"
    /\ raised' = "none"
    /\ diff_writes' = 0

WebInit ==
    /\ files = "empty"
    /\ publish_output \in BOOLEAN
    /\ persistent_comment \in BOOLEAN
    /\ cli_mode = TRUE
    /\ templates \in {"override_ok", "override_missing_var", "no_override"}
    /\ pc = "no_instance"
    /\ ctrl = [state |-> "NotStarted", i |-> 1, attempt |-> 1]
    /\ fpc = "idle"
    /\ attempts = <<>>
    /\ patches_diff = "None"
    /\ vars_diff = ""
    /\ prediction = "None"
    /\ analysis = "unset"
    /\ log = <<>>
    /\ data = "none"
    /\ stdout = "none"
    /\ err = "none"
    /\ raised = "none"
    /\ diff_writes = 0
    /\ rpc = "idle"
    /\ response = NoResponse
    /\ nreq = 0
    /\ own_start = "none"
    /\ opc = "idle"
    /\ other_result = "none"
    /\ pr_url = TRUE

\* api_analyze, app.py lines 39-52: a request arrives.  Without pr_url the
\* answer is 400; otherwise publishing is switched off in the settings and
\* the PRDeploymentImpact is built, and an exception of the constructor is
\* answered with 500 (lines 58-59).
ApiAnalyze ==
    /\ rpc \in {"idle", "responded"}
    /\ nreq < MaxRequests
    /\ nreq' = nreq + 1
    /\ own_start' = data
    /\ \E url \in BOOLEAN, built \in BOOLEAN,
          f \in {"empty", "nonempty", "raises"} :
          /\ pr_url' = url
          /\ ~url => built /\ f = "empty"
          /\ ~built => f = "empty"
          /\ files' = f
          /\ IF ~url
             THEN /\ response' = [status |-> 400, kind |-> "error",
                                  body |-> "PR URL is required"]
                  /\ rpc' = "responded"
                  /\ publish_output' = publish_output
                  /\ Instance("no_instance")
             ELSE /\ publish_output' = FALSE
                  /\ IF built
                     THEN /\ response' = NoResponse
                          /\ rpc' = "running"
                          /\ Instance("start")
                     ELSE /\ response' = [status |-> 500, kind |-> "error",
                                          body |-> "exception"]
                          /\ rpc' = "responded"
                          /\ Instance("no_instance")
    /\ UNCHANGED <<persistent_comment, cli_mode, templates, data, opc,
                   other_result>>

\* run_analysis and the end of api_analyze, app.py lines 55-57 and 61-69:
\* run() has returned; the artifact found in the settings is the result
RunAnalysis ==
    /\ rpc = "running"
    /\ pc = "returned"
    /\ response' = [status |-> 200, kind |-> "result",
                    body |-> ArtifactOrDefault(data)]
    /\ rpc' = "responded"
    /\ UNCHANGED <<config, pc, ctrl, fpc, attempts, patches_diff, vars_diff,
                   prediction, analysis, log, data, stdout, err, raised,
                   diff_writes, nreq, own_start, opc, other_result, pr_url>>

pipeline == <<files, persistent_comment, cli_mode, templates, pc, ctrl, fpc,
              attempts, patches_diff, vars_diff, prediction, analysis, log,
              stdout, err, raised, diff_writes>>

\* a second request, served by another thread of the server: api_analyze,
\* app.py lines 47-52, up to the start of its run()
OtherApiAnalyze ==
    /\ opc = "idle"
    /\ opc' = "running"
    /\ publish_output' = FALSE
    /\ UNCHANGED <<pipeline, data, rpc, response, nreq, own_start,
                   other_result, pr_url>>

\* the run() of the second request, as far as the shared settings see it:
\* it stores its report (line 187), or it ends without a report
OtherRun ==
    /\ opc = "running"
    /\ opc' = "ran"
    /\ \E stores \in BOOLEAN :
          data' = IF stores THEN OtherReport ELSE data
    /\ UNCHANGED <<pipeline, publish_output, rpc, response, nreq, own_start,
                   other_result, pr_url>>

\* run_analysis of the second request, app.py lines 61-69
OtherRunAnalysis ==
    /\ opc = "ran"
    /\ opc' = "responded"
    /\ other_result' = ArtifactOrDefault(data)
    /\ UNCHANGED <<pipeline, SharedSettings, rpc, response, nreq, own_start,
                   pr_url>>

\* The steps of run() under /api/analyze.  Line 49 has switched
\* publish_output off before run() starts and nothing switches it on, so
\* lines 184 and 201 (RemoveFinal, ExceptRemove) are not reached, and
\* nothing cancels the task that asyncio.run drives.
WebNext ==
    \/ ApiAnalyze
    \/ CheckFiles
    \/ PostMarker
    \/ PreparePrediction
    \/ ChatCompletion
    \/ CheckPrediction
    \/ Format
    \/ Publish
    \/ Except
    \/ RunAnalysis
    \/ OtherApiAnalyze
    \/ OtherRun
    \/ OtherRunAnalysis

WebSpec == WebInit /\ [][WebNext]_vars

----------------------------------------------------------------------------
\* what the claims speak about

MarkerPosted == Done("marker") # {}

ReportKind == IF persistent_comment THEN "report_persistent"
              ELSE "report_comment"

\* the comments a reader of the PR ends up with, the marker aside
TerminalComments ==
    {k \in 1..Len(log) :
        log[k].ok /\ log[k].op \in ReportOps \cup {"failed_notice"}}

\* the log of a run with publishing enabled that ends with body and no error
MarkerThen(body) == <<Call("marker", TRUE)>> \o body

\* the terminal paths C1 lists: no error at all (prediction published,
\* empty diff, chain exhausted), or an error of formatting, of publishing
\* or of the removal itself
C1Paths == {"none", "format", "publish", "remove_final",
            "remove_no_prediction"}

\* C1: whenever run() has returned on one of these paths and the marker
\* was posted, the marker was posted once and remove_initial_comment was
\* invoked exactly once.
C1_MarkerRemovedExactlyOnce ==
    (pc = "returned" /\ MarkerPosted /\ err \in C1Paths) =>
        /\ Cardinality(CallsOf("marker")) = 1
        /\ Cardinality(CallsOf("remove")) = 1

\* C2: with an empty changed-file list run() goes from its start straight
\* to its return: no provider call (marker or comment), no controller, no
\* model call, no exception.
C2_EmptyFileListIsSilent ==
    files = "empty" =>
        /\ pc \in {"start", "returned"}
        /\ log = <<>>
        /\ ctrl.state = "NotStarted"
        /\ attempts = <<>>
        /\ fpc = "idle"
        /\ err = "none"
        /\ raised = "none"

C2_Witness == files = "empty" /\ pc = "returned"

\* C3: when run() is left by a cancellation delivered at the model call
\* after the marker was posted, the marker has been removed.
C3_CancelRemovesMarker ==
    (raised = "CancelledError" /\ MarkerPosted) => Done("remove") # {}

\* C4: with a prediction and publishing enabled: the report is formatted
\* before it is published; at most one report publish is made, of the kind
\* the persistent_comment switch selects; no marker removal precedes it; a
\* removal follows a published report or, in the handler, the failure
\* notice; and a run without error makes exactly the calls marker, report,
\* removal, in this order.
C4_FormatPublishRemove ==
    (Truthy(prediction) /\ publish_output) =>
        /\ Cardinality(ReportCalls) <= 1
        /\ \A k \in ReportCalls :
              /\ log[k].op = ReportKind
              /\ analysis # "unset"
              /\ \A j \in CallsOf("remove") : k < j
        /\ \A j \in CallsOf("remove") :
              \E k \in TerminalComments : k < j
        /\ (pc = "returned" /\ err = "none") =>
              log = MarkerThen(<<Call(ReportKind, TRUE),
                                 Call("remove", TRUE)>>)

C4_Witness ==
    /\ Truthy(prediction) /\ publish_output
    /\ pc = "returned" /\ err = "none"
    /\ Done(ReportKind) # {}
    /\ Done("remove") # {}

\* C5: at most one terminal comment, report or failure notice, is
\* published in one run.
C5_AtMostOneTerminalComment == Cardinality(TerminalComments) <= 1

\* the steps that format or publish
PublishSteps == {"marker", "format", "publish"}

\* C6: an exception of a formatting or publishing step is caught by run():
\* the run ends by returning, never by raising, also when the failure
\* notice or the removal after it raises; once the handler has run, exactly
\* one notice was attempted when publishing is enabled and none otherwise.
C6_PublishErrorsSwallowed ==
    err \in PublishSteps =>
        /\ raised = "none"
        /\ pc \in {"except", "except_remove", "returned"}
        /\ pc # "except" =>
              Cardinality(CallsOf("failed_notice")) =
                  IF publish_output THEN 1 ELSE 0
        /\ pc = "except" => CallsOf("failed_notice") = {}

C6_Witness ==
    /\ err = "publish"
    /\ pc = "returned"
    /\ \E k \in CallsOf("failed_notice") : ~log[k].ok

TransientThenOk(n) ==
    /\ n \in 1..Len(attempts)
    /\ attempts[n][2] = "ok"
    /\ \A k \in 1..(n - 1) :
          /\ attempts[k][2] = "transient"
          /\ attempts[k][1] # attempts[n][1]

\* C9: when the first M models fail transiently on every call and model
\* M+1 answers, the successful call is call number M*RetryCeiling + 1, call
\* k went to model ((k-1) div RetryCeiling) + 1 (list order, RetryCeiling
\* calls each), no call follows the successful one, and the controller has
\* succeeded with that model's response as the prediction.
C9_FallbackReachesFirstWorkingModel ==
    \A n \in 1..Len(attempts) :
        TransientThenOk(n) =>
            /\ n = (attempts[n][1] - 1) * RetryCeiling + 1
            /\ \A k \in 1..n :
                  attempts[k][1] = ((k - 1) \div RetryCeiling) + 1
            /\ Len(attempts) = n
            /\ ctrl.state = "Succeeded"
            /\ ctrl.i = attempts[n][1]
            /\ prediction \in Texts
            /\ fpc = "idle"

C9_Witness ==
    /\ TransientThenOk(Len(attempts))
    /\ attempts[Len(attempts)][1] = NModels
    /\ Len(attempts) = (NModels - 1) * RetryCeiling + 1
    /\ pc = "returned"

AllCallsFailed == \A k \in 1..Len(attempts) : IsFailure(attempts[k][2])

CtrlFinished == ctrl.state \in {"Succeeded", "Exhausted"}

\* what holds of the controller in every state: no model is called more
\* than RetryCeiling times, and a controller that finished on a non-empty
\* diff with all calls failed is Exhausted and has called every model
RetriesBounded ==
    /\ \A m \in Models : Cardinality(AttemptsOn(m)) <= RetryCeiling
    /\ Len(attempts) <= NModels * RetryCeiling
    /\ (CtrlFinished /\ AllCallsFailed /\ patches_diff = "diff") =>
          /\ ctrl.state = "Exhausted"
          /\ \A m \in Models : AttemptsOn(m) # {}

\* C10: every model is called at most RetryCeiling times, a chain whose
\* calls all fail ends in Exhausted, and run() terminates.
C10_BoundedRetriesAndTermination == []RetriesBounded /\ <>Terminated

C10_Witness ==
    /\ ctrl.state = "Exhausted"
    /\ pc = "returned"
    /\ \A m \in Models : Cardinality(AttemptsOn(m)) = RetryCeiling

RenderFailed == templates = "override_missing_var" /\ vars_diff # ""

\* C14: a render failure aborts the analysis: no model is called for it or
\* after it, the controller tries no further model, and run() neither
\* handles the exception nor returns; it raises.
C14_RenderErrorLeavesRun ==
    RenderFailed =>
        /\ attempts = <<>>
        /\ ~CtrlActive
        /\ pc = "raised"
        /\ raised # "none"

\* the attempts that got past line 238: every finished model call, the
\* call that is pending, and the attempt that ended the controller with
\* an exception (its templates failed, or its model call was cancelled)
AttemptsWithDiff ==
    Len(attempts)
    + (IF fpc = "awaiting_completion" THEN 1 ELSE 0)
    + (IF ctrl.state = "Propagated" THEN 1 ELSE 0)

\* C15 as the spec words it: vars["diff"] is written at most once in a run,
\* so never a second time between attempts.
C15_DiffWrittenOnce == diff_writes <= 1

\* C15 amended: vars["diff"] is written once by every attempt of the
\* controller that has a non-empty diff, retries and later models
\* included, and by nothing else; each write stores that attempt's diff.
C15_DiffWrittenPerAttempt ==
    /\ diff_writes = AttemptsWithDiff
    /\ diff_writes = 0 <=> vars_diff = ""
    /\ vars_diff \in {"", "diff"}
    /\ patches_diff = "diff" => vars_diff = patches_diff

C15_Witness ==
    /\ diff_writes = NModels * RetryCeiling
    /\ ctrl.state = "Exhausted"
    /\ pc = "returned"

\* C16: with no override template configured, an attempt with a non-empty
\* diff resolves the default templates, renders them and goes on to the
\* model call.
C16_DefaultTemplatesReachModel ==
    (templates = "no_override" /\ vars_diff # "") =>
        /\ err = "none"
        /\ fpc = "awaiting_completion" \/ attempts # <<>>

\* C18: with publish_output false, run() makes no call on the provider:
\* no marker, no report, no failure notice, and no marker removal.
C18_NoProviderCallWhenNotPublishing ==
    (rpc = "none" /\ ~publish_output) => log = <<>>

\* the analysis of the request in hand failed inside run(): an exception
\* reached the handler of line 193, or the fallback chain was exhausted
AnalysisFailed == err # "none" \/ ctrl.state = "Exhausted"

\* C12: a request without pr_url, and a request whose analysis failed
\* inside run(), is answered with an error payload and a status other than
\* 200; so a result payload with status 200 is not given for an analysis
\* that failed.
C12_FailureGivesErrorPayload ==
    rpc = "responded" =>
        /\ response.kind = "error" <=> response.status # 200
        /\ ~pr_url => response.kind = "error"
        /\ AnalysisFailed => response.kind = "error"

\* what the request in hand returns when no other request runs beside it:
\* its own report, else the artifact the settings held when it came in
AloneResult ==
    IF analysis # "unset" THEN analysis ELSE ArtifactOrDefault(own_start)

\* C13: whatever a concurrent request does, and however its steps
\* interleave with those of the request in hand, the result returned is
\* the result the request would have returned running alone.
C13_ConcurrentRequestsIndependent ==
    (rpc = "responded" /\ response.kind = "result") =>
        response.body = AloneResult

\* C17: with requests handled one after the other (no second request
\* beside them), the result returned is the report of the request's own
\* analysis, and the fixed text when that analysis produced no report;
\* never the artifact of an earlier request.
C17_ResultIsOwnReport ==
    (opc = "idle" /\ rpc = "responded" /\ response.kind = "result") =>
        response.body =
            IF analysis # "unset" THEN analysis ELSE NoResultText
====
